---- MODULE Spec2Model ----
(***************************************************************************)
(* The measurement service of map_assignement: the Express handlers of     *)
(* src/server/server.js over the Measurement collection, and the client's  *)
(* batch save (App.finishDrawing, src/unnamed/part_000).                   *)
(*                                                                         *)
(* A handler runs without interruption between two awaits, so each action  *)
(* is one such run: the arrival of a request up to its first await on the  *)
(* store, or the resumption after the store answered up to the response.   *)
(***************************************************************************)
EXTENDS Integers, Sequences, FiniteSets, TLC

\* ------------------------------------------------------------- bounds
\* The millisecond clock that stamps createdAt runs from 0 to MaxClock.
MaxClock == 1
\* Documents constructed by POST handlers over a run (their _id's are 1..MaxCreates).
MaxCreates == 2
\* The connections on which a handler can be suspended at an await. A handler
\* has at most two steps, and two connections let any step of one fall between
\* the two steps of another.
Conns == {"c1", "c2"}

\* Features drawn over a session (the client).
MaxFeatures == 3
\* finishDrawing calls that send their POSTs over a session (the client).
MaxBatches == 1
\* Measurements the list request of the client's start-up returns.
MaxLoaded == 1

\* ------------------------------------------------------------- values
\* A field the JSON body does not carry (JavaScript's undefined).
Undefined == "undefined"

\* The schema's enum of type (MeasurementSchema).
EnumType == {"LineString", "Polygon"}

\* A GeoJSON Feature with a geometry of the given type; the coordinates are
\* not modelled (no handler reads them).
Feature(gt) == [type |-> "Feature", geometry |-> [type |-> gt]]

\* The body carries no geojson.
NoGeojson == [type |-> Undefined, geometry |-> [type |-> Undefined]]

\* A JSON value with its JavaScript typeof.
Num(n) == [t |-> "number", n |-> n]
NotANumber == [t |-> "string", n |-> 0]
NoValue == [t |-> Undefined, n |-> 0]

TypeOf(v) == v.t

\* JavaScript's !x for a string or an absent field, and for an object.
Falsy(s) == s \in {Undefined, ""}
FalsyObject(g) == g.type = Undefined

Body(ty, g, v, u) == [type |-> ty, geojson |-> g, value |-> v, unit |-> u]

\* ------------------------------------------------- the client's payloads
\* What the Draw interaction of setDrawMode can add to pendingSource.
DrawTypes == {"LineString", "Polygon"}

\* A drawn geometry: its type and ol/sphere's getLength or getArea of it, a
\* length in metres or an area in square metres. The two samples are a line
\* of 7 m and a polygon that encloses no area.
Geometry(gt) == [gType |-> gt, size |-> IF gt = "LineString" THEN 7 ELSE 0]
Geometries == {Geometry(gt) : gt \in DrawTypes}

\* A conversion that writes a geometry of the other type into the GeoJSON.
PayloadBadGeometry(geom) ==
    Body(geom.gType,
         Feature(IF geom.gType = "Polygon" THEN "LineString" ELSE "Polygon"),
         Num(geom.size),
         IF geom.gType = "LineString" THEN "m" ELSE "m2")

\* finishDrawing's conversion of one pending feature's geometry into the body
\* of its POST: the unit follows the geometry's type, and the GeoJSON geometry
\* carries that same type.
Payload(geom) ==
    Body(geom.gType,
         Feature(geom.gType),
         Num(geom.size),
         IF geom.gType = "LineString" THEN "m" ELSE "m2")

\* The bodies finishDrawing can send.
ClientBodies == {Payload(g) : g \in Geometries}

\* ------------------------------------------------------ request bodies
\* Bodies whose type and geojson.geometry.type disagree, as any HTTP caller
\* can send them.
MismatchBodies == {Body("LineString", Feature("Polygon"), Num(7), "m")}

\* A body with one field missing or of the wrong shape.
Corruptions(b) ==
    {[b EXCEPT !.type = Undefined], [b EXCEPT !.type = "Point"],
     [b EXCEPT !.geojson = NoGeojson],
     [b EXCEPT !.value = NotANumber],
     [b EXCEPT !.unit = Undefined]}

\* The JSON bodies a POST /api/measurements arrives with.
Bodies ==
    ClientBodies \cup MismatchBodies
        \cup Corruptions(Payload(Geometry("LineString")))

\* -------------------------------------------------------- the handlers
\* A guard that tests value as it tests the other fields, by !value.
InvalidPayloadTruthyValue(b) ==
    \/ Falsy(b.type)
    \/ FalsyObject(b.geojson)
    \/ TypeOf(b.value) # "number" \/ b.value.n = 0
    \/ Falsy(b.unit)

\* POST's guard: !type || !geojson || typeof value !== "number" || !unit.
InvalidPayload(b) ==
    \/ Falsy(b.type)
    \/ FalsyObject(b.geojson)
    \/ TypeOf(b.value) # "number"
    \/ Falsy(b.unit)

\* Mongoose's validation of a document against MeasurementSchema: type is
\* required and in the enum, geojson, value and unit are required.
SchemaValid(d) ==
    /\ d.type \in EnumType
    /\ ~FalsyObject(d.geojson)
    /\ TypeOf(d.value) = "number"
    /\ ~Falsy(d.unit)

\* The document Measurement.create builds from the handler's four fields:
\* Mongoose gives it its _id and, by {timestamps: true}, its createdAt.
NewDoc(b, id, t) ==
    [id |-> id, type |-> b.type, geojson |-> b.geojson,
     value |-> b.value, unit |-> b.unit, createdAt |-> t]

\* No document (findOne's null; a connection that holds none).
NoDoc == NewDoc(Body(Undefined, NoGeojson, NoValue, Undefined), 0, 0)

\* The four submitted fields of a document.
BodyOf(d) == Body(d.type, d.geojson, d.value, d.unit)

\* ----------------------------------------------------------- the store
Range(s) == {s[i] : i \in 1..Len(s)}

\* The orders in which a query can return the collection's documents.
Orderings(st) ==
    LET n == Len(st)
        perms == {f \in [1..n -> 1..n] : \A i, j \in 1..n : i # j => f[i] # f[j]}
    IN  {[i \in 1..n |-> st[f[i]]] : f \in perms}

\* .sort({createdAt: -1}): newest first.
SortedDesc(s) ==
    \A i, j \in 1..Len(s) : i < j => s[i].createdAt >= s[j].createdAt

\* The sort with the sign of its key inverted: .sort({createdAt: 1}).
FindSortedAscending(st) ==
    {s \in Orderings(st) :
        \A i, j \in 1..Len(s) : i < j => s[i].createdAt <= s[j].createdAt}

\* Measurement.find().sort({createdAt: -1}). The sort key is createdAt alone,
\* and the store returns documents with equal keys in no specified order, so
\* every descending order of the collection is a possible result.
FindSorted(st) == {s \in Orderings(st) : SortedDesc(s)}

\* Measurement.findOne().sort({createdAt: -1}): the head of such an order,
\* null (NoDoc) when the collection is empty.
FindOneLatest(st) ==
    IF st = <<>> THEN {NoDoc} ELSE {s[1] : s \in FindSorted(st)}

\* A handler that does not test what findOne returned.
IsNullNever(d) == FALSE

\* The handler's test of what findOne returned: !latest.
IsNull(d) == d = NoDoc

\* A delete that takes the collection's last insertion, whatever the _id.
FindByIdAndDeleteLast(st, id) == SubSeq(st, 1, Len(st) - 1)

\* Measurement.findByIdAndDelete(id): the collection without the document of
\* that _id, unchanged when there is none.
FindByIdAndDelete(st, id) == SelectSeq(st, LAMBDA d : d.id # id)

\* ------------------------------------------------------------ the state
VARIABLES
    store,      \* the measurements collection, in insertion order
    now,        \* the server's clock when it was last read, in milliseconds
    nextId,     \* the next _id Mongoose generates
    dbUp,       \* whether the store answers (mongoose's connection)
    conn,       \* per connection: the handler suspended at an await, if any
    out,        \* the request handled by the last step and the response written
    features,   \* how many features the user has drawn so far (client)
    pending,    \* pendingSource: the features drawn and not saved (client)
    saved,      \* savedSource: the features loaded from the API (numbers below
                \* 0) and those promoted by finishDrawing (client)
    lastInfo,   \* the status message (client)
    drawInteraction,  \* the active Draw interaction's type, or "null" (client)
    batches,    \* the closures of the finishDrawing calls made so far (client)
    loading     \* whether the GET of loadMeasurements is unanswered (client)

serverVars == <<store, now, nextId, dbUp, conn, out>>
clientVars == <<features, pending, saved, lastInfo, drawInteraction, batches, loading>>
vars == <<serverVars, clientVars>>

NoBody == BodyOf(NoDoc)

\* A connection with no handler suspended on it.
Idle == [pc |-> "idle", route |-> "none", body |-> NoBody, doc |-> NoDoc]

\* The response a step wrote, with the request it answers; NoEvent when the
\* step wrote none.
Event(route, body, status, error, records, n) ==
    [route |-> route, body |-> body, status |-> status, error |-> error,
     records |-> records, deletedCount |-> n]

NoEvent == Event("none", NoBody, 0, "", <<>>, 0)

\* What the clock can show when Mongoose reads it to stamp a document: the
\* time of the last reading, or a later one.
ClockReads == now..MaxClock

AllIdle == \A c \in Conns : conn[c].pc = "idle"

\* An async handler's promise rejects and the handler has no try/catch. What
\* follows is the framework's: Express 5 passes the rejection to its error
\* handler, which answers 500; Express 4 ignores the returned promise, and no
\* response is ever written on the connection.
UnhandledRejection(c, route, body) ==
    \/ /\ out' = Event(route, body, 500, "Internal Server Error", <<>>, 0)
       /\ conn' = [conn EXCEPT ![c] = Idle]
    \/ /\ out' = NoEvent
       /\ conn' = [conn EXCEPT ![c] =
               [pc |-> "hung", route |-> route, body |-> body, doc |-> NoDoc]]

\* ---------------------------------------------------------- the actions
\* The store becomes unreachable, or reachable again.
StoreDown ==
    /\ dbUp
    /\ dbUp' = FALSE
    /\ out' = NoEvent
    /\ UNCHANGED <<store, now, nextId, conn, clientVars>>

StoreUp ==
    /\ ~dbUp
    /\ dbUp' = TRUE
    /\ out' = NoEvent
    /\ UNCHANGED <<store, now, nextId, conn, clientVars>>

\* GET /api/health: answered before any middleware, whatever the store's state.
Health ==
    /\ out' = Event("health", NoBody, 200, "", <<>>, 0)
    /\ UNCHANGED <<store, now, nextId, dbUp, conn, clientVars>>

\* A request no route matches: the fallback middleware.
NotFound ==
    /\ out' = Event("unmatched", NoBody, 404, "Not found", <<>>, 0)
    /\ UNCHANGED <<store, now, nextId, dbUp, conn, clientVars>>

\* GET /api/measurements: the sorted find, answered as it is; 503 from the
\* catch when the store rejects.
GetMeasurements ==
    /\ IF dbUp
         THEN \E items \in FindSorted(store) :
                out' = Event("list", NoBody, 200, "", items, 0)
         ELSE out' = Event("list", NoBody, 503, "Database unavailable", <<>>, 0)
    /\ UNCHANGED <<store, now, nextId, dbUp, conn, clientVars>>

\* POST /api/measurements, the guard fails: 400, nothing else happens.
PostInvalid(b) ==
    /\ InvalidPayload(b)
    /\ out' = Event("create", b, 400, "Invalid payload", <<>>, 0)
    /\ UNCHANGED <<store, now, nextId, dbUp, conn, clientVars>>

\* POST /api/measurements, the guard passes: Measurement.create builds the
\* document (its _id, its createdAt) and validates it. A valid document is on
\* its way to the store and the handler awaits; an invalid one rejects the
\* promise, which the handler does not catch.
PostCreate(c, b) ==
    /\ conn[c].pc = "idle"
    /\ ~InvalidPayload(b)
    /\ nextId <= MaxCreates
    /\ \E t \in ClockReads :
         LET doc == NewDoc(b, nextId, t) IN
         IF SchemaValid(doc)
           THEN /\ conn' = [conn EXCEPT ![c] =
                        [pc |-> "creating", route |-> "create", body |-> b, doc |-> doc]]
                /\ out' = NoEvent
                /\ nextId' = nextId + 1
                /\ now' = t
           ELSE /\ UnhandledRejection(c, "create", b)
                /\ UNCHANGED <<nextId, now>>
    /\ UNCHANGED <<store, dbUp, clientVars>>

\* The insert reaches the store and the handler resumes: 201 with the saved
\* document; or the store rejects, which the handler does not catch.
PostSaved(c) ==
    /\ conn[c].pc = "creating"
    /\ IF dbUp
         THEN /\ store' = Append(store, conn[c].doc)
              /\ out' = Event("create", conn[c].body, 201, "", <<conn[c].doc>>, 0)
              /\ conn' = [conn EXCEPT ![c] = Idle]
         ELSE /\ UnhandledRejection(c, "create", conn[c].body)
              /\ UNCHANGED store
    /\ UNCHANGED <<now, nextId, dbUp, clientVars>>

\* DELETE /api/measurements/latest up to its second await: findOne sorted by
\* createdAt descending; 404 when it finds nothing.
DeleteFind(c) ==
    /\ conn[c].pc = "idle"
    /\ IF ~dbUp
         THEN UnhandledRejection(c, "delete", NoBody)
         ELSE \E latest \in FindOneLatest(store) :
           IF IsNull(latest)
             THEN /\ out' = Event("delete", NoBody, 404, "No measurements to delete", <<>>, 0)
                  /\ conn' = conn
             ELSE /\ conn' = [conn EXCEPT ![c] =
                        [pc |-> "found", route |-> "delete", body |-> NoBody, doc |-> latest]]
                  /\ out' = NoEvent
    /\ UNCHANGED <<store, now, nextId, dbUp, clientVars>>

\* ... and from there: findByIdAndDelete of the document found, then
\* {deletedCount: 1} whatever it returned.
DeleteFound(c) ==
    /\ conn[c].pc = "found"
    /\ IF dbUp
         THEN /\ store' = FindByIdAndDelete(store, conn[c].doc.id)
              /\ out' = Event("delete", NoBody, 200, "", <<>>, 1)
              /\ conn' = [conn EXCEPT ![c] = Idle]
         ELSE /\ UnhandledRejection(c, "delete", NoBody)
              /\ UNCHANGED store
    /\ UNCHANGED <<now, nextId, dbUp, clientVars>>

\* The caller of a request that is never answered gives up and closes the
\* connection.
Abort(c) ==
    /\ conn[c].pc = "hung"
    /\ conn' = [conn EXCEPT ![c] = Idle]
    /\ out' = NoEvent
    /\ UNCHANGED <<store, now, nextId, dbUp, clientVars>>

\* lastInfo's messages.
MsgLoading == "Loading"
MsgNoneYet == "No measurements yet. Draw then click Finish to save."
MsgLoaded == "N measurement(s) in database."
MsgNotLoaded == "Could not load measurements. Is the server running?"
MsgDrawLine == "Draw a line. Click Finish to save."
MsgDrawPolygon == "Draw a polygon. Click Finish to save."
MsgNothingDrawn == "Nothing to save. Draw a line or polygon first, then click Finish."
MsgNothing == "Nothing to save."
MsgSaved == "Your data are saved and are available."
MsgFailed == "Failed to save. Is the server running?"
MsgReset == "Unsaved drawings cleared. Your saved data in the database are unchanged."

ServerInit ==
    /\ store = <<>>
    /\ now = 0
    /\ nextId = 1
    /\ dbUp = TRUE
    /\ conn = [c \in Conns |-> Idle]
    /\ out = NoEvent

ClientInit ==
    /\ features = 0
    /\ pending = {}
    /\ saved = {}
    /\ lastInfo = MsgLoading
    /\ drawInteraction = "null"
    /\ batches = <<>>
    /\ loading = TRUE

Init == ServerInit /\ ClientInit

Next ==
    \/ StoreDown
    \/ StoreUp
    \/ Health
    \/ NotFound
    \/ GetMeasurements
    \/ \E b \in Bodies : PostInvalid(b)
    \/ \E c \in Conns, b \in Bodies : PostCreate(c, b)
    \/ \E c \in Conns : PostSaved(c)
    \/ \E c \in Conns : DeleteFind(c)
    \/ \E c \in Conns : DeleteFound(c)
    \/ \E c \in Conns : Abort(c)

\* The server under every interleaving of its requests.
Spec == Init /\ [][Next]_vars

\* The server when its callers wait for the answer to one request before they
\* send the next: no request arrives while a handler is suspended.
SeqNext ==
    \/ StoreDown
    \/ StoreUp
    \/ AllIdle /\ Health
    \/ AllIdle /\ NotFound
    \/ AllIdle /\ GetMeasurements
    \/ \E b \in Bodies : AllIdle /\ PostInvalid(b)
    \/ \E c \in Conns, b \in Bodies : AllIdle /\ PostCreate(c, b)
    \/ \E c \in Conns : PostSaved(c)
    \/ \E c \in Conns : AllIdle /\ DeleteFind(c)
    \/ \E c \in Conns : DeleteFound(c)
    \/ \E c \in Conns : Abort(c)

SeqSpec == Init /\ [][SeqNext]_vars

\* ---------------------------------------------------------- the client
\* A set of feature numbers as the array getFeatures() returns, in the order
\* the features were drawn.
RECURSIVE AsArray(_)
AsArray(S) ==
    IF S = {} THEN <<>>
    ELSE LET m == CHOOSE x \in S : \A y \in S : x <= y
         IN  <<m>> \o AsArray(S \ {m})

\* finishDrawing's loop over the features it read: one payload per feature
\* whose geometry is a LineString or a Polygon, the others are skipped. Every
\* feature of pendingSource comes from the Draw interaction of setDrawMode, so
\* it has a geometry of one of the two types and none is skipped.
PayloadCount(fs) == Len(fs)

\* The closure of one finishDrawing call: the features it read, its counters,
\* and each of its POSTs: "sent", or resolved "ok" (next) or "err" (error).
Closure(fs, n) ==
    [features |-> fs, total |-> n, done |-> 0, failed |-> FALSE,
     calls |-> [i \in 1..n |-> "sent"]]

\* A test that does not wait for the last success: !failed.
PromotesUnlessFailed(b, done) == ~b.failed

\* The next callback's test for promoting the batch: !failed && done === total.
Promotes(b, done) == ~b.failed /\ done = b.total

\* loadMeasurements' next callback, to the GET that ngAfterViewInit sent: a
\* new feature in savedSource for each of the n measurements, and the count
\* as the message.
LoadNext(n) ==
    /\ loading
    /\ loading' = FALSE
    /\ saved' = saved \cup {-j : j \in 1..n}
    /\ lastInfo' = IF n = 0 THEN MsgNoneYet ELSE MsgLoaded
    /\ UNCHANGED <<features, pending, drawInteraction, batches, serverVars>>

\* ... and its error callback.
LoadError ==
    /\ loading
    /\ loading' = FALSE
    /\ lastInfo' = MsgNotLoaded
    /\ UNCHANGED <<features, pending, saved, drawInteraction, batches, serverVars>>

\* setDrawMode(type): stopDrawing, then a new Draw interaction of that type.
SetDrawMode(type) ==
    /\ drawInteraction' = type
    /\ lastInfo' = IF type = "LineString" THEN MsgDrawLine ELSE MsgDrawPolygon
    /\ UNCHANGED <<features, pending, saved, batches, loading, serverVars>>

\* The user completes a sketch: the Draw interaction adds the feature to its
\* source, pendingSource.
DrawEnd ==
    /\ drawInteraction # "null"
    /\ features < MaxFeatures
    /\ features' = features + 1
    /\ pending' = pending \cup {features + 1}
    /\ UNCHANGED <<saved, lastInfo, drawInteraction, batches, loading, serverVars>>

\* finishDrawing(): stopDrawing; nothing pending, or no payload, is a message
\* and a return; otherwise one POST per payload, all sent at once.
FinishDrawing ==
    /\ drawInteraction' = "null"
    /\ LET fs == AsArray(pending)
           total == PayloadCount(fs)
       IN  IF fs = <<>>
             THEN /\ lastInfo' = MsgNothingDrawn
                  /\ batches' = batches
             ELSE IF total = 0
               THEN /\ lastInfo' = MsgNothing
                    /\ batches' = batches
               ELSE /\ Len(batches) < MaxBatches
                    /\ batches' = Append(batches, Closure(fs, total))
                    /\ lastInfo' = lastInfo
    /\ UNCHANGED <<features, pending, saved, loading, serverVars>>

\* A POST of batch k answers 2xx: its next callback.
CallNext(k, i) ==
    /\ k \in 1..Len(batches)
    /\ i \in 1..batches[k].total
    /\ batches[k].calls[i] = "sent"
    /\ LET b == batches[k]
           done == b.done + 1
       IN  /\ batches' = [batches EXCEPT ![k].done = done, ![k].calls[i] = "ok"]
           /\ IF Promotes(b, done)
                THEN /\ saved' = saved \cup Range(b.features)
                     /\ pending' = {}
                     /\ lastInfo' = MsgSaved
                ELSE UNCHANGED <<saved, pending, lastInfo>>
    /\ UNCHANGED <<features, drawInteraction, loading, serverVars>>

\* A POST of batch k fails (no connection, or a status that is not 2xx): its
\* error callback.
CallError(k, i) ==
    /\ k \in 1..Len(batches)
    /\ i \in 1..batches[k].total
    /\ batches[k].calls[i] = "sent"
    /\ batches' = [batches EXCEPT ![k].failed = TRUE, ![k].calls[i] = "err"]
    /\ lastInfo' = MsgFailed
    /\ UNCHANGED <<features, pending, saved, drawInteraction, loading, serverVars>>

\* reset(): stopDrawing, pendingSource.clear().
Reset ==
    /\ drawInteraction' = "null"
    /\ pending' = {}
    /\ lastInfo' = MsgReset
    /\ UNCHANGED <<features, saved, batches, loading, serverVars>>

ClientNext ==
    \/ \E n \in 0..MaxLoaded : LoadNext(n)
    \/ LoadError
    \/ \E type \in DrawTypes : SetDrawMode(type)
    \/ DrawEnd
    \/ FinishDrawing
    \/ \E k \in 1..MaxBatches, i \in 1..MaxFeatures : CallNext(k, i)
    \/ \E k \in 1..MaxBatches, i \in 1..MaxFeatures : CallError(k, i)
    \/ Reset

\* The client under every order of the user's actions and of the answers to
\* its POSTs.
ClientSpec == Init /\ [][ClientNext]_vars

\* A session with one batch: the user draws and resets at will, then clicks
\* Finish and nothing else happens until every POST of the batch has resolved.
BatchNext ==
    \/ \E n \in 0..MaxLoaded : batches = <<>> /\ LoadNext(n)
    \/ batches = <<>> /\ LoadError
    \/ \E type \in DrawTypes : batches = <<>> /\ SetDrawMode(type)
    \/ batches = <<>> /\ DrawEnd
    \/ batches = <<>> /\ Reset
    \/ batches = <<>> /\ FinishDrawing
    \/ \E k \in 1..MaxBatches, i \in 1..MaxFeatures : CallNext(k, i)
    \/ \E k \in 1..MaxBatches, i \in 1..MaxFeatures : CallError(k, i)

BatchSpec == Init /\ [][BatchNext]_vars

\* ======================================================= the properties
\* The _id's of a sequence of documents.
Ids(s) == {s[i].id : i \in 1..Len(s)}

\* A body that is a valid create: a type of the enum, a geojson, a numeric
\* value (0 included) and a unit.
WellShaped(b) ==
    /\ b.type \in EnumType
    /\ ~FalsyObject(b.geojson)
    /\ TypeOf(b.value) = "number"
    /\ ~Falsy(b.unit)

\* ------------------------------------------------------------------ C1
\* C1: a 200 answer of GET /api/measurements carries every document of the
\* collection, each once and no other, ordered by createdAt descending.
C1_ListIsStoreNewestFirst ==
    (out.route = "list" /\ out.status = 200) =>
        /\ Len(out.records) = Len(store)
        /\ Range(out.records) = Range(store)
        /\ Cardinality(Ids(out.records)) = Len(out.records)
        /\ \A i \in 1..(Len(out.records) - 1) :
              out.records[i].createdAt >= out.records[i + 1].createdAt

\* A list of two documents created at different times: the answer is not the
\* collection's insertion order.
C1_Witness ==
    /\ out.route = "list" /\ out.status = 200
    /\ Len(out.records) = 2
    /\ out.records[1].createdAt > out.records[2].createdAt
    /\ out.records # store

\* ------------------------------------------------------------------ C3
\* A step in which a DELETE /api/measurements/latest arrives: it is answered
\* at once on a connection that stays as it was, or a handler of that route is
\* now suspended (or unanswered) on a connection that was idle.
DeleteArrives ==
    \/ out'.route = "delete" /\ conn' = conn
    \/ \E c \in Conns : conn[c].pc = "idle" /\ conn'[c].route = "delete"

\* C3: a DELETE /api/measurements/latest that arrives while the collection is
\* empty deletes nothing and never answers deletedCount 1; when the store
\* answers, the response is 404 with an error message.
C3_DeleteOnEmptyStore ==
    [][(store = <<>> /\ DeleteArrives) =>
          /\ store' = <<>>
          /\ out'.status # 200
          /\ out'.deletedCount # 1
          /\ \A c \in Conns : conn[c].pc # "found" => conn'[c].pc # "found"
          /\ dbUp => /\ out'.route = "delete"
                     /\ out'.status = 404
                     /\ out'.error # ""
                     /\ conn' = conn]_vars

\* A 404 to a delete on a collection that documents were created in and
\* deleted from.
C3_Witness ==
    /\ out.route = "delete" /\ out.status = 404
    /\ store = <<>>
    /\ nextId > 1

\* ------------------------------------------------------------------ C5
\* C5: a valid create is answered 201 when the store answers, never 400; the
\* 201 carries one record whose type, geojson, value and unit are the
\* submitted ones, with an _id no stored document has and a createdAt, and
\* the collection is the one before with that record added.
C5_ValidCreate ==
    [][/\ (out'.route = "create" /\ WellShaped(out'.body)) =>
              \/ out'.status = 201
              \/ out'.status = 500 /\ ~dbUp
       /\ \A c \in Conns :
            /\ (conn[c].pc # "hung" /\ conn'[c].pc = "hung"
                    /\ conn'[c].route = "create"
                    /\ WellShaped(conn'[c].body)) => ~dbUp
            /\ (conn[c].pc = "creating" /\ conn'[c] # conn[c] /\ dbUp) =>
                  /\ out'.route = "create" /\ out'.status = 201
                  /\ out'.body = conn[c].body
                  /\ Len(out'.records) = 1
                  /\ BodyOf(out'.records[1]) = conn[c].body
                  /\ out'.records[1].id >= 1
                  /\ out'.records[1].id \notin Ids(store)
                  /\ out'.records[1].createdAt \in 0..MaxClock
                  /\ store' = Append(store, out'.records[1])
       /\ (out'.route = "create" /\ out'.status = 201 /\ out' # out) =>
              /\ WellShaped(out'.body)
              /\ Len(store') = Len(store) + 1]_vars

\* A 201 to a create whose value is 0, its record the collection's newest
\* insertion, after another record.
C5_Witness ==
    /\ out.route = "create" /\ out.status = 201
    /\ out.body.value = Num(0)
    /\ Len(store) = 2
    /\ store[2] = out.records[1]

\* ------------------------------------------------------------------ C2
\* The greatest createdAt of a non-empty collection.
MaxCreatedAt(st) ==
    CHOOSE t \in {st[i].createdAt : i \in 1..Len(st)} :
        \A i \in 1..Len(st) : st[i].createdAt <= t

\* C2: with no other request in flight, a DELETE /api/measurements/latest on
\* a non-empty collection, once the store has answered, responds 200 with
\* deletedCount 1 and removes one record, the one created last (B after A
\* then B), which has the greatest createdAt; the others stay as they were.
C2_DeleteRemovesLastCreated ==
    [][\A c \in Conns :
          (conn[c].pc = "found" /\ conn'[c].pc = "idle" /\ dbUp) =>
              /\ out'.route = "delete" /\ out'.status = 200
              /\ out'.deletedCount = 1
              /\ store # <<>>
              /\ store[Len(store)].createdAt = MaxCreatedAt(store)
              /\ store' = SubSeq(store, 1, Len(store) - 1)]_vars

\* ------------------------------------------------------------------ C4
\* C4: a POST /api/measurements whose body is not a valid create (a field
\* missing or of the wrong shape, a type outside LineString and Polygon) is
\* answered 400; no handler goes on with it and the collection stays as it was.
C4_InvalidCreateIs400 ==
    [][/\ (out'.route = "create" /\ ~WellShaped(out'.body)) =>
              /\ out'.status = 400
              /\ out'.error # ""
              /\ store' = store
       /\ \A c \in Conns :
              conn'[c].route = "create" => WellShaped(conn'[c].body)]_vars

\* ------------------------------------------------------------------ C8
\* C8: no request is left without a response (a failure of the store is
\* answered as an error), and a request no route matches is answered 404.
C8_EveryRequestAnswered ==
    /\ \A c \in Conns : conn[c].pc # "hung"
    /\ out.route = "unmatched" => out.status = 404
    /\ out.route # "none" => out.status \in {200, 201, 400, 404, 500, 503}

\* ------------------------------------------------------------------ C9
\* C9 as stated: every stored record has a type of the enum that equals the
\* type of its geojson's geometry.
C9_TypeEqualsGeometryType ==
    \A i \in 1..Len(store) :
        /\ store[i].type \in EnumType
        /\ store[i].type = store[i].geojson.geometry.type

\* C9: every stored record has a type of the enum; the records whose fields
\* are a body finishDrawing sends have a type equal to the type of their
\* geojson's geometry (the API does not compare the two).
C9_TypeInEnumAndClientAgrees ==
    \A i \in 1..Len(store) :
        /\ store[i].type \in EnumType
        /\ BodyOf(store[i]) \in ClientBodies =>
              store[i].type = store[i].geojson.geometry.type

\* The collection holds a record sent by finishDrawing and one whose type
\* and geometry disagree.
C9_Witness ==
    \E i, j \in 1..Len(store) :
        /\ BodyOf(store[i]) \in ClientBodies
        /\ store[j].type # store[j].geojson.geometry.type

\* ----------------------------------------------------------------- C10
\* The record inserted last among those with the greatest createdAt.
LastInsertedOfNewest(st) ==
    LET newest == {i \in 1..Len(st) : st[i].createdAt = MaxCreatedAt(st)}
    IN  st[CHOOSE i \in newest : \A j \in newest : j <= i]

\* C10: when several records share the greatest createdAt, the latest record
\* (the one a delete finds, the head of a list) is the one inserted last
\* among them.
C10_TieSelectsLastInserted ==
    [][/\ \A c \in Conns :
            (conn[c].pc = "idle" /\ conn'[c].pc = "found") =>
                conn'[c].doc = LastInsertedOfNewest(store)
       /\ (out'.route = "list" /\ out'.status = 200 /\ out'.records # <<>>) =>
                out'.records[1] = LastInsertedOfNewest(store')]_vars

\* ------------------------------------------------------------------ C6
\* C6: a drawn shape enters the saved layer only by a step after which every
\* POST of a finishDrawing call that read it has succeeded; a callback of a
\* call with a failed POST promotes nothing, its error callback sets the
\* failure message and a success callback after a failure leaves the message
\* as it is.
C6_PromotionOnlyAfterAllSucceed ==
    [][/\ \A f \in saved' \ saved :
            f >= 1 =>
              \E k \in 1..Len(batches') :
                /\ f \in Range(batches'[k].features)
                /\ \A i \in 1..batches'[k].total : batches'[k].calls[i] = "ok"
                /\ batches'[k].done = batches'[k].total
                /\ ~batches'[k].failed
                /\ lastInfo' = MsgSaved
       /\ \A k \in 1..Len(batches) :
            (batches'[k] # batches[k] /\ batches'[k].failed) =>
              /\ saved' = saved
              /\ pending' = pending
              /\ (\E i \in 1..batches[k].total :
                      batches[k].calls[i] = "sent" /\ batches'[k].calls[i] = "err")
                    => lastInfo' = MsgFailed
              /\ (\E i \in 1..batches[k].total :
                      batches[k].calls[i] = "sent" /\ batches'[k].calls[i] = "ok")
                    => lastInfo' = lastInfo]_vars

\* A call of two POSTs, the first failed and the second succeeded, both
\* resolved: the message is the failure message and nothing was promoted.
C6_Witness ==
    \E k \in 1..Len(batches) :
        /\ batches[k].calls = <<"err", "ok">>
        /\ batches[k].done = 1
        /\ lastInfo = MsgFailed
        /\ saved \cap Range(batches[k].features) = {}

\* ------------------------------------------------------------------ C7
\* A finishDrawing call of three shapes whose second POST failed and whose
\* first and third succeeded, all resolved.
SecondOfThreeFailed(b) == b.total = 3 /\ b.calls = <<"ok", "err", "ok">>

\* C7 as stated: after such a call the message is the failure message, two
\* shapes of the call are in the saved layer and the failed one is pending.
C7_TwoOfThreeSaved ==
    \A k \in 1..Len(batches) :
        SecondOfThreeFailed(batches[k]) =>
            /\ lastInfo = MsgFailed
            /\ Cardinality(saved \cap Range(batches[k].features)) = 2
            /\ batches[k].features[2] \in pending

\* C7: after such a call the message is the failure message, no shape of the
\* call is in the saved layer and all three are still pending.
C7_NoneOfThreeSaved ==
    \A k \in 1..Len(batches) :
        SecondOfThreeFailed(batches[k]) =>
            /\ lastInfo = MsgFailed
            /\ saved \cap Range(batches[k].features) = {}
            /\ Range(batches[k].features) \subseteq pending

\* Such a call has resolved, beside a saved layer that holds a loaded
\* measurement.
C7_Witness ==
    /\ \E k \in 1..Len(batches) : SecondOfThreeFailed(batches[k])
    /\ saved # {}

\* ----------------------------------------------------------------- C11
\* C11: when the delete step of a DELETE /api/measurements/latest runs on a
\* collection that still holds the record its find step found, it removes
\* that record and no other: every other record, a record inserted since the
\* find included (one newer than the record found), stays where it was.
C11_DeleteRemovesWhatItFound ==
    [][\A c \in Conns :
          (conn[c].pc = "found" /\ conn'[c].pc = "idle" /\ dbUp
                /\ conn[c].doc \in Range(store)) =>
              /\ Range(store') = Range(store) \ {conn[c].doc}
              /\ Len(store') = Len(store) - 1
              /\ store' = SelectSeq(store, LAMBDA d : d # conn[c].doc)
              /\ \A i \in 1..Len(store) :
                    store[i].createdAt > conn[c].doc.createdAt =>
                        store[i] \in Range(store')]_vars

\* A delete found a record and is suspended before its delete step, the
\* store answers, and the collection holds that record and a newer one: an
\* insert committed after the find.
C11_Witness ==
    /\ dbUp
    /\ \E c \in Conns :
          /\ conn[c].pc = "found"
          /\ conn[c].doc \in Range(store)
          /\ \E i \in 1..Len(store) :
                store[i].createdAt > conn[c].doc.createdAt

\* ----------------------------------------------------------------- C12
\* C12: every 200 {deletedCount: 1} of DELETE /api/measurements/latest is
\* the removal of one record: the step that answers it takes exactly one
\* record out of the collection, so that the collection's size stays the
\* number of 201 answers minus the number of such 200 answers.
C12_DeletedCountIsARemoval ==
    [][(out'.route = "delete" /\ out'.status = 200 /\ out'.deletedCount = 1
            /\ conn' # conn) =>
          Len(store') = Len(store) - 1]_vars

\* ----------------------------------------------------------------- C13
\* C13: a shape leaves the pending layer only by reset, or by a promotion
\* that puts it on the saved layer after the POST made for it by a
\* finishDrawing call succeeded; a shape drawn while a call is in flight
\* stays pending when that call completes.
C13_PendingLeavesByResetOrOwnPromotion ==
    [][\A f \in pending \ pending' :
          \/ lastInfo' = MsgReset /\ batches' = batches
          \/ /\ f \in saved'
             /\ \E k \in 1..Len(batches') :
                  \E i \in 1..batches'[k].total :
                      /\ batches'[k].features[i] = f
                      /\ batches'[k].calls[i] = "ok"]_vars

====
